---- MODULE Spec2Model ----
(***************************************************************************)
(* A state-machine model of cmd-nsc-vpp (src/main.go): the five bootstrap  *)
(* phases of main, the per-service probe/request loop, the deferred        *)
(* teardown, the dataplane error watcher started by exitOnErrCh and the    *)
(* signal-aware context of notifyContext.                                  *)
(*                                                                         *)
(* Go semantics the model relies on:                                       *)
(*   - a Fatal/Fatalf log call ends the process through os.Exit(1); no     *)
(*     deferred function runs;                                             *)
(*   - deferred functions run in LIFO order, one after the other, when     *)
(*     main returns;                                                       *)
(*   - a context derived from a cancelled context is cancelled from the    *)
(*     moment it is created;                                               *)
(*   - a receive from a channel takes a queued value, or the zero value    *)
(*     when the channel is closed and empty, and blocks otherwise.         *)
(*                                                                         *)
(* Left out: logging, and the OpenTelemetry set-up of main.go:134-144,     *)
(* which is off unless enabled and touches none of the state modelled.     *)
(***************************************************************************)
EXTENDS Integers, Sequences, FiniteSets, TLC

(***************************************************************************)
(* Bounds of the model.                                                    *)
(***************************************************************************)
\* longest Config.NetworkServices list explored
MaxServices == 2
\* most connections one monitor event carries
MaxMonitored == 2
\* most OS termination signals delivered to the process in one run
MaxSignals == 1

(***************************************************************************)
(* Values.                                                                 *)
(***************************************************************************)
\* memif.MECHANISM, the one mechanism type main accepts
MEMIF == "MEMIF"

\* Config.Name values explored: the default.  main only ever copies the name
\* into identifiers, so one value stands for all.
Names == {"cmd-nsc-vpp"}

\* strings.ToUpper on the URL schemes the model uses
ToUpper(s) ==
    CASE s = "memif"  -> "MEMIF"
      [] s = "kernel" -> "KERNEL"
      [] s = "vpp"    -> "VPP"
      [] OTHER        -> s

\* The network-service URLs a configuration may list.  query is the list of
\* key=value pairs of the URL's query string (keys distinct).
Descriptors ==
    { [scheme |-> "memif",  host |-> "my-service",    query |-> << <<"label", "a">> >>],
      [scheme |-> "vpp",    host |-> "my-service",    query |-> << <<"label", "a">> >>],
      [scheme |-> "kernel", host |-> "other-service", query |-> << >>],
      [scheme |-> "memif",  host |-> "second",        query |-> << <<"app", "b">> >>] }

\* nsurl.NSURL.Mechanism: the mechanism type is the upper-cased URL scheme
Mechanism(u) == [cls |-> "LOCAL", type |-> ToUpper(u.scheme)]

\* nsurl.NSURL.NetworkService: the URL's host
NetworkService(u) == u.host

\* nsurl.NSURL.Labels: the query string as a key -> value map
Labels(u) ==
    [k \in {u.query[j][1] : j \in 1..Len(u.query)} |->
        (CHOOSE p \in {u.query[j] : j \in 1..Len(u.query)} : p[1] = k)[2]]

\* strconv of one decimal digit
Digit(d) ==
    CASE d = 0 -> "0" [] d = 1 -> "1" [] d = 2 -> "2" [] d = 3 -> "3"
      [] d = 4 -> "4" [] d = 5 -> "5" [] d = 6 -> "6" [] d = 7 -> "7"
      [] d = 8 -> "8" [] d = 9 -> "9"

RECURSIVE Itoa(_)
\* the %d verb of fmt.Sprintf on a non-negative int
Itoa(n) == IF n < 10 THEN Digit(n) ELSE Itoa(n \div 10) \o Digit(n % 10)

\* id := fmt.Sprintf("%s-%d", config.Name, i)
ConnectionId(name, i) == name \o "-" \o Itoa(i)

\* all lists over S of length at most n
SeqsUpTo(S, n) == UNION {[1..k -> S] : k \in 0..n}

\* request.Connection fields that a bare request leaves unset
NoMechanism == [cls |-> "", type |-> ""]
NoPath == [index |-> 0, pathSegments |-> << >>]

VARIABLES
    name,            \* config.Name
    services,        \* config.NetworkServices
    pc,              \* position of the main flow
    i,               \* loop index of phase 5
    exitStatus,      \* "none" while running, else the process exit status
    fatalAt,         \* the Fatal call that ended the process, "" if none
    ctxDone,         \* ctx (the root context) is cancelled
    sigInstalled,    \* signal.NotifyContext has registered the handler
    sigStopped,      \* cancelSignalCtx has run
    signalled,       \* a termination signal reached the handler
    sigCount,        \* signals delivered so far
    vpp,             \* the dataplane process: "none", "running", "exited"
    errQueued,       \* error values waiting on vppErrCh
    errClosed,       \* vppErrCh is closed
    watcher,         \* the goroutine of exitOnErrCh
    defers,          \* main's stack of deferred calls (last is run first)
    probeErr,        \* stream.Recv returned an error in this iteration
    monitoredConnections, \* the map read from the monitor stream
    request,         \* the request built for slot i
    requests,        \* log: every nsmClient.Request call, in call order
    established,     \* log: slots whose Request returned a connection
    closeLog,        \* log: every nsmClient.Close call and return
    vppErrAt         \* where main was when the dataplane failed

vars == <<name, services, pc, i, exitStatus, fatalAt, ctxDone, sigInstalled,
          sigStopped, signalled, sigCount, vpp, errQueued, errClosed, watcher,
          defers, probeErr, monitoredConnections, request, requests, established,
          closeLog, vppErrAt>>

cfgVars == <<name, services>>
ctxVars == <<ctxDone, sigInstalled, sigStopped, signalled, sigCount>>
vppVars == <<vpp, errQueued, errClosed>>
loopVars == <<i, probeErr, monitoredConnections, request>>
logVars == <<requests, established, closeLog>>

NoRequest == [slot |-> -1]
NoErr == [phase |-> "", connected |-> 0]

Init ==
    /\ name \in Names
    /\ services \in SeqsUpTo(Descriptors, MaxServices)
    /\ pc = "config"
    /\ i = 0
    /\ exitStatus = "none"
    /\ fatalAt = ""
    /\ ctxDone = FALSE
    /\ sigInstalled = FALSE
    /\ sigStopped = FALSE
    /\ signalled = FALSE
    /\ sigCount = 0
    /\ vpp = "none"
    /\ errQueued = 0
    /\ errClosed = FALSE
    /\ watcher = "none"
    /\ defers = << [op |-> "cancel", slot |-> -1] >>
    /\ probeErr = FALSE
    /\ monitoredConnections = {}
    /\ request = NoRequest
    /\ requests = << >>
    /\ established = << >>
    /\ closeLog = << >>
    /\ vppErrAt = NoErr

\* signalCtx.Done() is closed: by a signal, by its parent ctx, or by its own
\* cancel function
SignalCtxDone == ctxDone \/ signalled \/ sigStopped

Alive == exitStatus = "none"

\* the part of main the main flow is in
Phase ==
    CASE pc \in {"config", "startVpp", "exitOnErrCh", "svid", "client", "dial"}
            -> "bootstrap"
      [] pc \in {"loop", "probeOpen", "probeRecv", "mechanism", "request",
                 "requesting"} -> "loop"
      [] pc = "wait" -> "wait"
      [] pc \in {"return", "closing", "drain"} -> "teardown"
      [] OTHER -> "exited"

\* a mutant of Fatal: the process ends with status 0
FatalStatusZero(where) ==
    /\ pc' = "exited"
    /\ exitStatus' = "0"
    /\ fatalAt' = where

\* log.Fatal / log.Fatalf / logrus.Fatal: os.Exit(1), deferred calls do not run
Fatal(where) ==
    /\ pc' = "exited"
    /\ exitStatus' = "1"
    /\ fatalAt' = where

\* defer f(): push on main's defer stack
Defer(d) == defers' = Append(defers, d)

\* phase 1: envconfig.Usage / envconfig.Process / logrus.ParseLevel
LoadConfig ==
    /\ pc = "config"
    /\ \/ /\ pc' = "startVpp"
          /\ UNCHANGED <<exitStatus, fatalAt>>
       \/ Fatal("config")
    /\ UNCHANGED <<cfgVars, ctxVars, vppVars, watcher, defers, loopVars,
                   logVars, vppErrAt>>

\* phase 2: vpphelper.StartAndDialContext(ctx)
StartVpp ==
    /\ pc = "startVpp"
    /\ vpp' = "running"
    /\ pc' = "exitOnErrCh"
    /\ UNCHANGED <<cfgVars, ctxVars, errQueued, errClosed, watcher, defers,
                   loopVars, logVars, vppErrAt, exitStatus, fatalAt>>

\* a receive from vppErrCh can complete
ErrChReady == errQueued > 0 \/ errClosed

\* a mutant of ExitOnErrCh: a pending error is logged and ctx cancelled, as
\* the watcher goroutine does for a later one, and main goes on
ExitOnErrChCancel ==
    /\ pc = "exitOnErrCh"
    /\ IF ErrChReady
       THEN /\ errQueued' = IF errQueued > 0 THEN errQueued - 1 ELSE errQueued
            /\ ctxDone' = TRUE
            /\ watcher' = "done"
       ELSE /\ watcher' = "waiting"
            /\ UNCHANGED <<errQueued, ctxDone>>
    /\ Defer([op |-> "drainVpp", slot |-> -1])
    /\ pc' = "svid"
    /\ UNCHANGED <<cfgVars, sigInstalled, sigStopped, signalled, sigCount,
                   vpp, errClosed, loopVars, logVars, vppErrAt, exitStatus,
                   fatalAt>>

\* exitOnErrCh: a pending error is fatal, otherwise the watcher goroutine is
\* started; then main defers { cancel(); <-vppErrCh }
ExitOnErrCh ==
    /\ pc = "exitOnErrCh"
    /\ IF ErrChReady
       THEN /\ Fatal("vpp")
            /\ errQueued' = IF errQueued > 0 THEN errQueued - 1 ELSE errQueued
            /\ UNCHANGED <<watcher, defers>>
       ELSE /\ watcher' = "waiting"
            /\ Defer([op |-> "drainVpp", slot |-> -1])
            /\ pc' = "svid"
            /\ UNCHANGED <<exitStatus, fatalAt, errQueued>>
    /\ UNCHANGED <<cfgVars, ctxVars, vpp, errClosed, loopVars, logVars,
                   vppErrAt>>

\* a mutant of RetrieveSvid: a failure is noted and main goes on to phase 4
RetrieveSvidContinue ==
    /\ pc = "svid"
    /\ pc' = "client"
    /\ \/ UNCHANGED fatalAt
       \/ fatalAt' = "svid"
    /\ UNCHANGED <<cfgVars, ctxVars, vppVars, watcher, defers, loopVars,
                   logVars, vppErrAt, exitStatus>>

\* phase 3: workloadapi.NewX509Source / source.GetX509SVID
RetrieveSvid ==
    /\ pc = "svid"
    /\ \/ /\ pc' = "client"
          /\ UNCHANGED <<exitStatus, fatalAt>>
       \/ Fatal("svid")
    /\ UNCHANGED <<cfgVars, ctxVars, vppVars, watcher, defers, loopVars,
                   logVars, vppErrAt>>

\* phase 4: client.NewClient, retry.NewClient, then notifyContext(ctx) and
\* defer cancelSignalCtx()
CreateClient ==
    /\ pc = "client"
    /\ sigInstalled' = TRUE
    /\ Defer([op |-> "cancelSignalCtx", slot |-> -1])
    /\ pc' = "dial"
    /\ UNCHANGED <<cfgVars, ctxDone, sigStopped, signalled, sigCount, vppVars,
                   watcher, loopVars, logVars, vppErrAt, exitStatus,
                   fatalAt>>

\* dialCtx, defer cancelDial(), grpc.DialContext
Dial ==
    /\ pc = "dial"
    /\ \/ /\ Defer([op |-> "cancelDial", slot |-> -1])
          /\ pc' = "loop"
          /\ UNCHANGED <<exitStatus, fatalAt>>
       \/ /\ Fatal("dial")
          /\ UNCHANGED defers
    /\ UNCHANGED <<cfgVars, ctxVars, vppVars, watcher, loopVars, logVars,
                   vppErrAt>>

(***************************************************************************)
(* Phase 5: the per-service loop.                                          *)
(***************************************************************************)
N == Len(services)

\* the URL of the current slot: u := nsurl.NSURL(config.NetworkServices[i])
U == services[i + 1]

\* a connection as the manager reports it: its id is the id of the path
\* segment that path.index addresses
MonitoredConnection(ix, t, segs) ==
    [id |-> segs[ix + 1],
     networkService |-> "resumed-service",
     labels |-> [k \in {"resumed"} |-> "yes"],
     mechanism |-> [cls |-> "LOCAL", type |-> t],
     path |-> [index |-> ix, pathSegments |-> segs]]

\* the connections a monitor event may carry for the selector {Id: id}: two
\* left by an earlier run of this client (path index 1, first segment id),
\* and one each that differs from those in its path index, in its mechanism
\* type, in its first segment
MonitorPool(id) ==
    { MonitoredConnection(1, "MEMIF", <<id, "nsmgr-1">>),
      MonitoredConnection(1, "MEMIF", <<id, "nsmgr-2">>),
      MonitoredConnection(0, "MEMIF", <<id, "nsmgr-1">>),
      MonitoredConnection(1, "KERNEL", <<id, "nsmgr-1">>),
      MonitoredConnection(1, "MEMIF", <<"other-0", "nsmgr-1">>) }

\* event.Connections: a map keyed by connection id, so ids are distinct
MonitorEvents(id) ==
    { S \in SUBSET MonitorPool(id) :
        /\ Cardinality(S) <= MaxMonitored
        /\ \A c, d \in S : c.id = d.id => c = d }

\* a mutant of LoopCondition: the last descriptor is left out
LoopConditionOffByOne == i < N - 1

\* a mutant of LoopCondition: the body is entered once more than there are
\* descriptors
LoopConditionInclusive == i <= N

\* i < len(config.NetworkServices)
LoopCondition == i < N

\* loop head: i < len(config.NetworkServices); on entry the iteration derives
\* id, declares monitoredConnections (nil) and defers cancelMonitor
LoopHead ==
    /\ pc = "loop"
    /\ IF LoopCondition
       THEN /\ pc' = "probeOpen"
            /\ Defer([op |-> "cancelMonitor", slot |-> i])
       ELSE /\ pc' = "wait"
            /\ UNCHANGED defers
    /\ UNCHANGED <<cfgVars, ctxVars, vppVars, watcher, loopVars, logVars,
                   vppErrAt, exitStatus, fatalAt>>

\* stream, err := monitorClient.MonitorConnections(monitorCtx, ...): an error
\* is fatal
ProbeOpen ==
    /\ pc = "probeOpen"
    /\ \/ /\ pc' = "probeRecv"
          /\ UNCHANGED <<exitStatus, fatalAt>>
       \/ Fatal("monitor")
    /\ UNCHANGED <<cfgVars, ctxVars, vppVars, watcher, defers, loopVars,
                   logVars, vppErrAt>>

\* a mutant of ProbeRecv: an error of stream.Recv is fatal, as an error of
\* MonitorConnections is
ProbeRecvFatal ==
    /\ pc = "probeRecv"
    /\ \/ /\ Fatal("recv")
          /\ UNCHANGED <<probeErr, monitoredConnections>>
       \/ /\ probeErr' = FALSE
          /\ monitoredConnections' \in MonitorEvents(ConnectionId(name, i))
          /\ pc' = "mechanism"
          /\ UNCHANGED <<exitStatus, fatalAt>>
    /\ UNCHANGED <<cfgVars, ctxVars, vppVars, watcher, defers, i, request,
                   logVars, vppErrAt>>

\* event, err := stream.Recv(): an error is logged and leaves the map nil;
\* then cancelMonitor()
ProbeRecv ==
    /\ pc = "probeRecv"
    /\ \/ /\ probeErr' = TRUE
          /\ monitoredConnections' = {}
       \/ /\ probeErr' = FALSE
          /\ monitoredConnections' \in MonitorEvents(ConnectionId(name, i))
    /\ pc' = "mechanism"
    /\ UNCHANGED <<cfgVars, ctxVars, vppVars, watcher, defers, i, request,
                   logVars, vppErrAt, exitStatus, fatalAt>>

\* a mutant of Resumable: the path index is not looked at
ResumableAnyIndex(conn, id, u) ==
    /\ conn.path.pathSegments[1] = id
    /\ conn.mechanism.type = Mechanism(u).type

\* the condition of the scan over monitoredConnections
Resumable(conn, id, u) ==
    /\ conn.path.index = 1
    /\ conn.path.pathSegments[1] = id
    /\ conn.mechanism.type = Mechanism(u).type

\* a mutant of BareRequest: the descriptor's labels are left out
BareRequestNoLabels(id, u) ==
    [connection |-> [id |-> id,
                     networkService |-> NetworkService(u),
                     labels |-> << >>,
                     mechanism |-> NoMechanism,
                     path |-> NoPath],
     mechanismPreferences |-> << Mechanism(u) >>]

\* the request literal: a bare request for the descriptor
BareRequest(id, u) ==
    [connection |-> [id |-> id,
                     networkService |-> NetworkService(u),
                     labels |-> Labels(u),
                     mechanism |-> NoMechanism,
                     path |-> NoPath],
     mechanismPreferences |-> << Mechanism(u) >>]

\* a mutant of SeededRequest: Connection.Id is left as the monitor gave it
SeededRequestKeepId(req, conn, id) ==
    [req EXCEPT !.connection = [conn EXCEPT !.path.index = 0]]

\* request.Connection = conn; Path.Index = 0; Id = id
SeededRequest(req, conn, id) ==
    [req EXCEPT !.connection = [conn EXCEPT !.path.index = 0, !.id = id]]

\* a mutant of Supported: any mechanism type passes the check
SupportedAny(mech) == mech.type # ""

\* the mechanism check: mech.Type != memif.MECHANISM is fatal
Supported(mech) == mech.type = MEMIF

\* mech := u.Mechanism(); the check; the request literal; the scan of the
\* map (Go ranges over a map in no fixed order) with its break
BuildRequest ==
    /\ pc = "mechanism"
    /\ IF ~Supported(Mechanism(U))
       THEN /\ Fatal("mechanism")
            /\ UNCHANGED request
       ELSE LET id == ConnectionId(name, i)
                bare == BareRequest(id, U)
                hits == {c \in monitoredConnections : Resumable(c, id, U)}
            IN  /\ IF hits = {}
                   THEN request' = bare
                   ELSE \E c \in hits : request' = SeededRequest(bare, c, id)
                /\ pc' = "request"
                /\ UNCHANGED <<exitStatus, fatalAt>>
    /\ UNCHANGED <<cfgVars, ctxVars, vppVars, watcher, defers, i, probeErr,
                   monitoredConnections, logVars, vppErrAt>>

\* a mutant of IssueRequest: the call is started and the loop goes on to the
\* next descriptor without waiting for its result
IssueRequestAsync ==
    /\ pc = "request"
    /\ requests' = Append(requests,
                     [slot |-> i, request |-> request, context |-> "ctx",
                      deadline |-> FALSE, ctxDoneAtCall |-> ctxDone])
    /\ probeErr' = FALSE
    /\ monitoredConnections' = {}
    /\ request' = NoRequest
    /\ i' = i + 1
    /\ pc' = "loop"
    /\ UNCHANGED <<cfgVars, ctxVars, vppVars, watcher, defers,
                   established, closeLog, vppErrAt, exitStatus, fatalAt>>

\* resp, err := nsmClient.Request(ctx, request): the call is made with ctx
\* itself, the root context, which carries no deadline.  The call is logged;
\* the iteration's locals request and monitoredConnections are not read again.
IssueRequest ==
    /\ pc = "request"
    /\ requests' = Append(requests,
                     [slot |-> i, request |-> request, context |-> "ctx",
                      deadline |-> FALSE, ctxDoneAtCall |-> ctxDone])
    /\ probeErr' = FALSE
    /\ monitoredConnections' = {}
    /\ request' = NoRequest
    /\ pc' = "requesting"
    /\ UNCHANGED <<cfgVars, ctxVars, vppVars, watcher, defers, i,
                   established, closeLog, vppErrAt, exitStatus, fatalAt>>

\* a mutant of RequestReturn: an error of Request is noted and the loop goes
\* on with the next descriptor
RequestReturnContinue ==
    /\ pc = "requesting"
    /\ \/ /\ ~requests[Len(requests)].ctxDoneAtCall
          /\ established' = Append(established, i)
          /\ Defer([op |-> "close", slot |-> i])
          /\ UNCHANGED fatalAt
       \/ /\ fatalAt' = "request"
          /\ UNCHANGED <<established, defers>>
    /\ i' = i + 1
    /\ pc' = "loop"
    /\ UNCHANGED <<cfgVars, ctxVars, vppVars, watcher, probeErr,
                   monitoredConnections, request, requests, closeLog,
                   vppErrAt, exitStatus>>

\* the call returns.  A call made with a context that was already cancelled
\* returns its error; otherwise the pipeline answers with a connection or with
\* an error.  On success main defers the close of resp; an error is fatal.
RequestReturn ==
    /\ pc = "requesting"
    /\ \/ /\ ~requests[Len(requests)].ctxDoneAtCall
          /\ established' = Append(established, i)
          /\ Defer([op |-> "close", slot |-> i])
          /\ i' = i + 1
          /\ pc' = "loop"
          /\ UNCHANGED <<exitStatus, fatalAt>>
       \/ /\ Fatal("request")
          /\ UNCHANGED <<established, defers, i>>
    /\ UNCHANGED <<cfgVars, ctxVars, vppVars, watcher, probeErr,
                   monitoredConnections, request, requests, closeLog,
                   vppErrAt>>

\* a mutant of Wait: main cancels ctx as soon as the wait is over
WaitThenCancel ==
    /\ pc = "wait"
    /\ SignalCtxDone
    /\ ctxDone' = TRUE
    /\ pc' = "return"
    /\ UNCHANGED <<cfgVars, sigInstalled, sigStopped, signalled, sigCount,
                   vppVars, watcher, defers, loopVars, logVars, vppErrAt,
                   exitStatus, fatalAt>>

\* a mutant of Wait: main does not wait for signalCtx
WaitNoBlock ==
    /\ pc = "wait"
    /\ pc' = "return"
    /\ UNCHANGED <<cfgVars, ctxVars, vppVars, watcher, defers, loopVars,
                   logVars, vppErrAt, exitStatus, fatalAt>>

\* <-signalCtx.Done()
Wait ==
    /\ pc = "wait"
    /\ SignalCtxDone
    /\ pc' = "return"
    /\ UNCHANGED <<cfgVars, ctxVars, vppVars, watcher, defers, loopVars,
                   logVars, vppErrAt, exitStatus, fatalAt>>

(***************************************************************************)
(* Teardown: main returns and its deferred calls run, last deferred first. *)
(***************************************************************************)
\* a mutant of NextIndex: deferred calls run first-deferred first, as a loop
\* over a list of connections would
NextIndexFifo == IF defers = << >> THEN 0 ELSE 1

\* the place in the defer stack of the call that runs next: the last one
NextIndex == Len(defers)

\* the deferred call that runs next
NextDeferred == defers[NextIndex]

\* the stack once NextDeferred has been taken off it
Remaining ==
    [k \in 1..(Len(defers) - 1) |->
        IF k < NextIndex THEN defers[k] ELSE defers[k + 1]]

Returning == pc = "return" /\ defers # << >>

\* closeCtx, cancelClose := context.WithTimeout(ctx, config.RequestTimeout):
\* a child of ctx, so cancelled from the start when ctx is
CloseCtxDone == ctxDone

\* a mutant of CloseCall: the close stays on the defer stack, as if teardown
\* were driven again
CloseCallKeepDeferred ==
    /\ Returning
    /\ NextDeferred.op = "close"
    /\ closeLog' = Append(closeLog,
                     [ev |-> "call", slot |-> NextDeferred.slot,
                      ctxDone |-> CloseCtxDone, deadline |-> TRUE])
    /\ pc' = "closing"
    /\ UNCHANGED <<cfgVars, ctxVars, vppVars, watcher, defers, loopVars,
                   requests, established, vppErrAt, exitStatus, fatalAt>>

\* the deferred func of a slot: closeCtx is made and nsmClient.Close called
CloseCall ==
    /\ Returning
    /\ NextDeferred.op = "close"
    /\ closeLog' = Append(closeLog,
                     [ev |-> "call", slot |-> NextDeferred.slot,
                      ctxDone |-> CloseCtxDone, deadline |-> TRUE])
    /\ defers' = Remaining
    /\ pc' = "closing"
    /\ UNCHANGED <<cfgVars, ctxVars, vppVars, watcher, loopVars, requests,
                   established, vppErrAt, exitStatus, fatalAt>>

\* a mutant of CloseReturn: an error of Close ends the process
CloseReturnEscalates ==
    /\ pc = "closing"
    /\ \E ok \in BOOLEAN :
          /\ ok => ~closeLog[Len(closeLog)].ctxDone
          /\ closeLog' = Append(closeLog,
                           [ev |-> "return", slot |-> closeLog[Len(closeLog)].slot,
                            err |-> ~ok])
          /\ IF ok
             THEN pc' = "return" /\ UNCHANGED <<exitStatus, fatalAt>>
             ELSE Fatal("close")
    /\ UNCHANGED <<cfgVars, ctxVars, vppVars, watcher, defers, loopVars,
                   requests, established, vppErrAt>>

\* nsmClient.Close returns (its results are dropped: _, _ =); a close whose
\* context was cancelled when it was called returns that error
CloseReturn ==
    /\ pc = "closing"
    /\ \E ok \in BOOLEAN :
          /\ ok => ~closeLog[Len(closeLog)].ctxDone
          /\ closeLog' = Append(closeLog,
                           [ev |-> "return", slot |-> closeLog[Len(closeLog)].slot,
                            err |-> ~ok])
    /\ pc' = "return"
    /\ UNCHANGED <<cfgVars, ctxVars, vppVars, watcher, defers, loopVars,
                   requests, established, vppErrAt, exitStatus, fatalAt>>

\* deferred cancelMonitor() and cancelDial(): the contexts they cancel are
\* no longer used
CancelFinished ==
    /\ Returning
    /\ NextDeferred.op \in {"cancelMonitor", "cancelDial"}
    /\ defers' = Remaining
    /\ UNCHANGED <<cfgVars, ctxVars, vppVars, watcher, pc, loopVars, logVars,
                   vppErrAt, exitStatus, fatalAt>>

\* deferred cancelSignalCtx(): the signal handler is unregistered
CancelSignalCtx ==
    /\ Returning
    /\ NextDeferred.op = "cancelSignalCtx"
    /\ sigStopped' = TRUE
    /\ defers' = Remaining
    /\ UNCHANGED <<cfgVars, ctxDone, sigInstalled, signalled, sigCount,
                   vppVars, watcher, pc, loopVars, logVars, vppErrAt,
                   exitStatus, fatalAt>>

\* deferred func() { cancel(); <-vppErrCh }: the cancel
DrainVppCancel ==
    /\ Returning
    /\ NextDeferred.op = "drainVpp"
    /\ ctxDone' = TRUE
    /\ defers' = Remaining
    /\ pc' = "drain"
    /\ UNCHANGED <<cfgVars, sigInstalled, sigStopped, signalled, sigCount,
                   vppVars, watcher, loopVars, logVars, vppErrAt, exitStatus,
                   fatalAt>>

\* a mutant of DrainVppRecv: the receive completes only with an error value,
\* not on a closed channel
DrainVppRecvValueOnly ==
    /\ pc = "drain"
    /\ errQueued > 0
    /\ errQueued' = errQueued - 1
    /\ pc' = "return"
    /\ UNCHANGED <<cfgVars, ctxVars, vpp, errClosed, watcher, defers,
                   loopVars, logVars, vppErrAt, exitStatus, fatalAt>>

\* ... and the receive from vppErrCh
DrainVppRecv ==
    /\ pc = "drain"
    /\ ErrChReady
    /\ errQueued' = IF errQueued > 0 THEN errQueued - 1 ELSE errQueued
    /\ pc' = "return"
    /\ UNCHANGED <<cfgVars, ctxVars, vpp, errClosed, watcher, defers,
                   loopVars, logVars, vppErrAt, exitStatus, fatalAt>>

\* deferred cancel() of the root context
CancelRoot ==
    /\ Returning
    /\ NextDeferred.op = "cancel"
    /\ ctxDone' = TRUE
    /\ defers' = Remaining
    /\ UNCHANGED <<cfgVars, sigInstalled, sigStopped, signalled, sigCount,
                   vppVars, watcher, pc, loopVars, logVars, vppErrAt,
                   exitStatus, fatalAt>>

\* main has returned and every deferred call has run: exit status 0
Exit ==
    /\ pc = "return"
    /\ defers = << >>
    /\ pc' = "exited"
    /\ exitStatus' = "0"
    /\ UNCHANGED <<cfgVars, ctxVars, vppVars, watcher, defers, loopVars,
                   logVars, vppErrAt, fatalAt>>

(***************************************************************************)
(* The watcher goroutine of exitOnErrCh.                                   *)
(***************************************************************************)
\* err := <-errCh
WatcherRecv ==
    /\ Alive
    /\ watcher = "waiting"
    /\ ErrChReady
    /\ errQueued' = IF errQueued > 0 THEN errQueued - 1 ELSE errQueued
    /\ watcher' = "received"
    /\ UNCHANGED <<cfgVars, ctxVars, vpp, errClosed, pc, defers, loopVars,
                   logVars, vppErrAt, exitStatus, fatalAt>>

\* a mutant of WatcherCancel: the error is logged and cancel() is not called
WatcherLogOnly ==
    /\ Alive
    /\ watcher = "received"
    /\ watcher' = "done"
    /\ UNCHANGED <<cfgVars, ctxVars, vppVars, pc, defers, loopVars, logVars,
                   vppErrAt, exitStatus, fatalAt>>

\* log the error; cancel()
WatcherCancel ==
    /\ Alive
    /\ watcher = "received"
    /\ ctxDone' = TRUE
    /\ watcher' = "done"
    /\ UNCHANGED <<cfgVars, sigInstalled, sigStopped, signalled, sigCount,
                   vppVars, pc, defers, loopVars, logVars, vppErrAt,
                   exitStatus, fatalAt>>

(***************************************************************************)
(* The environment: the dataplane process and the operating system.        *)
(***************************************************************************)
\* the dataplane process dies on its own: its error is put on vppErrCh and
\* the channel is closed
VppFail ==
    /\ Alive
    /\ vpp = "running"
    /\ ~ctxDone
    /\ vpp' = "exited"
    /\ errQueued' = errQueued + 1
    /\ errClosed' = TRUE
    /\ vppErrAt' = [phase |-> Phase, connected |-> Len(established)]
    /\ UNCHANGED <<cfgVars, ctxVars, watcher, pc, defers, loopVars, logVars,
                   exitStatus, fatalAt>>

\* the dataplane process is stopped by the cancellation of ctx: it reports
\* at most one error, then the channel is closed
VppStop ==
    /\ Alive
    /\ vpp = "running"
    /\ ctxDone
    /\ vpp' = "exited"
    /\ \E e \in 0..1 : errQueued' = errQueued + e
    /\ errClosed' = TRUE
    /\ UNCHANGED <<cfgVars, ctxVars, watcher, pc, defers, loopVars, logVars,
                   vppErrAt, exitStatus, fatalAt>>

\* SIGINT, SIGHUP, SIGTERM or SIGQUIT: cancels signalCtx while the handler of
\* signal.NotifyContext is registered, and kills the process otherwise
Signal ==
    /\ Alive
    /\ sigCount < MaxSignals
    /\ sigCount' = sigCount + 1
    /\ IF sigInstalled /\ ~sigStopped
       THEN /\ signalled' = TRUE
            /\ UNCHANGED <<pc, exitStatus>>
       ELSE /\ pc' = "exited"
            /\ exitStatus' = "signal"
            /\ UNCHANGED signalled
    /\ UNCHANGED <<cfgVars, ctxDone, sigInstalled, sigStopped, vppVars,
                   watcher, defers, loopVars, logVars, vppErrAt, fatalAt>>

Next ==
    \/ LoadConfig
    \/ StartVpp
    \/ ExitOnErrCh
    \/ RetrieveSvid
    \/ CreateClient
    \/ Dial
    \/ LoopHead
    \/ ProbeOpen
    \/ ProbeRecv
    \/ BuildRequest
    \/ IssueRequest
    \/ RequestReturn
    \/ Wait
    \/ CloseCall
    \/ CloseReturn
    \/ CancelFinished
    \/ CancelSignalCtx
    \/ DrainVppCancel
    \/ DrainVppRecv
    \/ CancelRoot
    \/ Exit
    \/ WatcherRecv
    \/ WatcherCancel
    \/ VppFail
    \/ VppStop
    \/ Signal

Spec == Init /\ [][Next]_vars

(***************************************************************************)
(* Properties.                                                             *)
(***************************************************************************)
IsCall(e) == e.ev = "call"

\* the nsmClient.Close calls made so far, in call order
CloseCalls == SelectSeq(closeLog, IsCall)

\* nsmClient.Close has been called for the connection of slot s
CloseCalled(s) ==
    \E k \in DOMAIN closeLog : closeLog[k].ev = "call" /\ closeLog[k].slot = s

AllClosed == \A k \in DOMAIN established : CloseCalled(established[k])

\* C1: the close calls of a teardown are made in the reverse of the order in
\* which the connections were established, each one only after the one
\* before it has returned, and a run that ends with status 0 has made all of
\* them.
C1_ReverseOrderTeardown ==
    /\ Len(closeLog) <= 2 * Len(established)
    /\ \A k \in DOMAIN closeLog :
          /\ closeLog[k].ev = (IF k % 2 = 1 THEN "call" ELSE "return")
          /\ closeLog[k].slot =
                established[Len(established) - ((k + 1) \div 2) + 1]
    /\ exitStatus = "0" => Len(closeLog) = 2 * Len(established)

\* C1 witness: a run that established two connections has ended with status
\* 0 after closing slot 1, then slot 0.
C1_Witness ==
    /\ exitStatus = "0"
    /\ established = <<0, 1>>
    /\ Len(CloseCalls) = 2
    /\ CloseCalls[1].slot = 1
    /\ CloseCalls[2].slot = 0

\* C2 (as claimed): whenever the process has terminated, by whatever path,
\* close has been called for every connection it had established.
C2_NoLeakOnAnyExit == pc = "exited" => AllClosed

\* the process was ended by a Fatal call that no cancellation explains: the
\* failing call was made while its context was live
IndependentFailure ==
    /\ fatalAt # ""
    /\ ~(fatalAt = "request" /\ requests[Len(requests)].ctxDoneAtCall)

\* C3 (as claimed): when the dataplane fails with a connection established
\* and the main flow in the loop or in the termination wait, and nothing
\* else fails, the process does not end before close has been called for
\* every tracked connection.
C3_DataplaneErrorTearsDown ==
    (/\ pc = "exited"
     /\ vppErrAt.connected >= 1
     /\ vppErrAt.phase \in {"loop", "wait"}
     /\ ~IndependentFailure)
        => (fatalAt = "" /\ ctxDone /\ AllClosed)

\* C4 (as claimed): every close is called with a context of its own that
\* carries the request timeout and is not cancelled when close is called.
C4_CloseContextLive ==
    \A k \in DOMAIN closeLog :
        closeLog[k].ev = "call" => (closeLog[k].deadline /\ ~closeLog[k].ctxDone)

\* the connections of the monitor event whose first path segment is the
\* slot's identifier and whose mechanism type is the descriptor's
SameSegmentAndMechanism ==
    {c \in monitoredConnections :
        /\ c.path.pathSegments[1] = name \o "-" \o Itoa(i)
        /\ c.mechanism.type = ToUpper(U.scheme)}

\* the request is the connection c of the monitor event, with its path index
\* set to 0 and its id to the slot's identifier
SeededFrom(c) ==
    /\ request.connection.labels = c.labels
    /\ request.connection.mechanism = c.mechanism
    /\ request.connection.networkService = c.networkService
    /\ request.connection.path.pathSegments = c.path.pathSegments
    /\ request.connection.path.index = 0
    /\ request.connection.id = name \o "-" \o Itoa(i)

\* C5 (as claimed): if the monitor event holds a connection with the slot's
\* first path segment and mechanism type, whatever its path index, the
\* request is seeded from such a connection.
C5_ResumeAnyIndex ==
    (pc = "request" /\ SameSegmentAndMechanism # {})
        => \E c \in SameSegmentAndMechanism : SeededFrom(c)

\* C5 (amended): if the monitor event holds a connection with the slot's
\* first path segment and mechanism type whose path index is 1, the request
\* is seeded from such a connection.
C5_ResumeIndexOne ==
    (pc = "request" /\ \E c \in SameSegmentAndMechanism : c.path.index = 1)
        => \E c \in SameSegmentAndMechanism : c.path.index = 1 /\ SeededFrom(c)

\* C5 witness: a request has been seeded from a monitored connection with
\* path index 1.
C5_Witness ==
    /\ pc = "request"
    /\ \E c \in SameSegmentAndMechanism : c.path.index = 1 /\ SeededFrom(c)
    /\ request.connection.labels = [k \in {"resumed"} |-> "yes"]

\* the request is the bare request of the descriptor: its service name, its
\* labels, its mechanism as the only preference, no path, no mechanism
IsBare ==
    /\ request.connection.id = name \o "-" \o Itoa(i)
    /\ request.connection.networkService = U.host
    /\ DOMAIN request.connection.labels = {U.query[j][1] : j \in DOMAIN U.query}
    /\ \A j \in DOMAIN U.query :
          request.connection.labels[U.query[j][1]] = U.query[j][2]
    /\ request.connection.path.pathSegments = << >>
    /\ request.connection.mechanism.type = ""
    /\ Len(request.mechanismPreferences) = 1
    /\ request.mechanismPreferences[1].type = ToUpper(U.scheme)

\* the probe gave nothing to resume: Recv failed, or no connection of the
\* event has path index 1, the slot's first segment and mechanism type
NothingToResume ==
    probeErr \/ ~\E c \in SameSegmentAndMechanism : c.path.index = 1

\* C6 (as claimed): the process never ends in the probe, whichever way the
\* probe fails, and a probe that fails or finds no match leads to a bare
\* request.
C6_ProbeFailureNeverFatal ==
    /\ fatalAt # "monitor"
    /\ (pc = "request" /\ NothingToResume) => IsBare

\* C6 (amended): an error (or timeout) of stream.Recv, or an event without a
\* match, does not end the process: the main flow goes on to the mechanism
\* check, and for a supported mechanism on to a bare request.  (An error
\* opening the subscription is fatal.)
C6_RecvFailureFallsBack ==
    /\ [][pc = "probeRecv" => pc' \in {"probeRecv", "mechanism"}]_vars
    /\ [][(pc = "mechanism" /\ ToUpper(U.scheme) = "MEMIF")
             => pc' \in {"mechanism", "request"}]_vars
    /\ []((pc = "request" /\ NothingToResume) => IsBare)

\* C6 witness: after a failed Recv the bare request of the second descriptor
\* has been built.
C6_Witness ==
    /\ pc = "request"
    /\ probeErr
    /\ i = 1
    /\ IsBare
    /\ request.connection.networkService = "second"

\* C7 (as claimed): when any descriptor of the configuration asks for an
\* unsupported mechanism type, no request call is ever made.
C7_UnsupportedAnywhereNoRequest ==
    (\E j \in DOMAIN services : ToUpper(services[j].scheme) # "MEMIF")
        => requests = << >>

\* C8: at the termination wait, one connection per descriptor has been
\* established, in index order, and exactly one close is deferred for each.
C8_AllTrackedAtWait ==
    pc = "wait" =>
        /\ established = [k \in 1..Len(services) |-> k - 1]
        /\ \A s \in 0..(Len(services) - 1) :
              Cardinality({k \in DOMAIN defers :
                             defers[k] = [op |-> "close", slot |-> s]}) = 1
        /\ Cardinality({k \in DOMAIN defers : defers[k].op = "close"})
              = Len(services)

\* C8 witness: the wait has been reached with two descriptors configured.
C8_Witness ==
    /\ pc = "wait"
    /\ Len(services) = 2
    /\ Len(established) = 2

\* "<name>-<i>" for the slots the model reaches
ExpectedId(nm, j) ==
    CASE j = 0 -> nm \o "-0"
      [] j = 1 -> nm \o "-1"
      [] j = 2 -> nm \o "-2"
      [] j = 3 -> nm \o "-3"
      [] OTHER -> ""

\* C9: every request carries the identifier "<name>-<slot>", whether bare
\* or seeded, so the identifiers are a function of the configuration alone,
\* and the identifiers of different slots differ.
C9_DeterministicIds ==
    /\ \A k \in DOMAIN requests :
          requests[k].request.connection.id = ExpectedId(name, requests[k].slot)
    /\ \A k, l \in DOMAIN requests :
          k # l => requests[k].request.connection.id
                     # requests[l].request.connection.id
    /\ pc = "request" => request.connection.id = ExpectedId(name, i)

\* C9 witness: two requests have been made, the second one seeded from a
\* monitored connection.
C9_Witness ==
    /\ Len(requests) = 2
    /\ requests[2].slot = 1
    /\ requests[2].request.connection.path.pathSegments # << >>
    /\ requests[2].request.connection.id = name \o "-1"

VppUrl == [scheme |-> "vpp", host |-> "my-service", query |-> << <<"label", "a">> >>]
MemifUrl == [scheme |-> "memif", host |-> "my-service", query |-> << <<"label", "a">> >>]

\* the run of a single descriptor passes the mechanism check and, with
\* nothing to resume, asks for "<name>-0", "my-service", {label: "a"}; at the
\* wait exactly one connection is established
SingleServiceRun ==
    /\ fatalAt # "mechanism"
    /\ (pc = "request" /\ NothingToResume) =>
          /\ request.connection.id = name \o "-0"
          /\ request.connection.networkService = "my-service"
          /\ request.connection.labels = ("label" :> "a")
    /\ pc = "wait" =>
          /\ established = <<0>>
          /\ Len(requests) = 1
          /\ requests[1].request.connection.id = name \o "-0"

\* C10 (as claimed): the configuration vpp://my-service?label=a passes the
\* mechanism check and yields one connection, requested as "<name>-0",
\* "my-service", {label: "a"}.
C10_VppExample == services = << VppUrl >> => SingleServiceRun

\* C10 (amended): the configuration memif://my-service?label=a does.
C10_MemifExample == services = << MemifUrl >> => SingleServiceRun

\* C10 witness: with memif://my-service?label=a the wait is reached after a
\* bare request with the label a.
C10_Witness ==
    /\ services = << MemifUrl >>
    /\ pc = "wait"
    /\ established = <<0>>
    /\ requests[1].request.connection.labels = ("label" :> "a")
    /\ requests[1].request.connection.networkService = "my-service"

\* C11: an error of the Request of slot k ends the process in that very step
\* with exit status 1: slot k's request is the last one made, no close is
\* called, and the main flow moves no further (it never reaches the wait).
C11_RequestErrorIsFatal ==
    /\ [](fatalAt = "request" =>
            /\ pc = "exited"
            /\ exitStatus = "1"
            /\ Len(requests) = i + 1
            /\ \A k \in 1..Len(requests) : requests[k].slot <= i
            /\ Len(established) = i
            /\ closeLog = << >>)
    /\ [][pc = "requesting" => pc' \in {"requesting", "loop", "exited"}]_vars
    /\ [][fatalAt = "request" => UNCHANGED vars]_vars

\* C11 witness: the request of slot 0 failed with a second descriptor still
\* to be served.
C11_Witness ==
    /\ fatalAt = "request"
    /\ i = 0
    /\ N = 2
    /\ Len(requests) = 1

\* the Fatal calls of main and exitOnErrCh, by the failure they report
FatalFailures ==
    {"config", "vpp", "svid", "dial", "monitor", "mechanism", "request"}

\* C12: a run that ends in a Fatal call (configuration, dataplane start,
\* identity, dial, probe open, unsupported mechanism, request error) ends
\* with status 1; status 0 is given only when main returns after the wait
\* with its deferred calls run, and then nsmClient.Close has been called for
\* every tracked connection.
C12_ExitStatus ==
    /\ [](fatalAt # "" =>
            pc = "exited" /\ exitStatus = "1" /\ fatalAt \in FatalFailures)
    /\ [](exitStatus = "0" =>
            /\ fatalAt = ""
            /\ pc = "exited"
            /\ i = N
            /\ defers = << >>
            /\ AllClosed)
    /\ [][pc # "exited" /\ pc' = "exited" =>
            \/ exitStatus' = "1" /\ fatalAt' \in FatalFailures
            \/ exitStatus' = "signal" /\ fatalAt' = ""
            \/ exitStatus' = "0" /\ pc = "return" /\ fatalAt' = ""]_vars

\* C12 witness: status 0 after the closes of two tracked connections.
C12_Witness ==
    /\ exitStatus = "0"
    /\ Len(established) = 2
    /\ Len(CloseCalls) = 2

\* the dataplane reported its failure before main reached the wait
ErrorBeforeWait == vppErrAt.phase \in {"bootstrap", "loop"}

\* C13 as claimed: whenever the dataplane failed before main reached the wait,
\* the context main waits on is already done when main is at the wait, so
\* the wait does not block.
C13_CancelledBeforeWait == (pc = "wait" /\ ErrorBeforeWait) => SignalCtxDone

\* C13: a failure the dataplane reports before main reaches the wait is not
\* missed.  If it was reported before the watcher goroutine was started, main
\* gets no further than exitOnErrCh.  Otherwise, when main is at the wait
\* the context is done, or the watcher holds the error and is about to
\* cancel, or the watcher's receive can complete; and once the watcher has
\* finished the context is done.
C13_ErrorNeverMissed ==
    /\ (vppErrAt # NoErr /\ watcher = "none") =>
            pc \in {"exitOnErrCh", "exited"}
    /\ (pc = "wait" /\ ErrorBeforeWait) =>
            \/ SignalCtxDone
            \/ watcher = "received"
            \/ watcher = "waiting" /\ ErrChReady
    /\ watcher = "done" => ctxDone

\* C13 witness: the dataplane failed during the loop and main is at the wait
\* while the watcher, which has taken the error, has not yet cancelled.
C13_Witness ==
    /\ pc = "wait"
    /\ vppErrAt.phase = "loop"
    /\ watcher = "received"
    /\ ~SignalCtxDone

\* C14 as claimed: a failure the dataplane reported before the watcher was
\* installed does not end the process at the installation step: main goes on
\* with the watcher in place.
C14_PendingErrorNotFatal ==
    (vppErrAt # NoErr /\ pc # "exitOnErrCh" /\ exitStatus # "signal") =>
        (fatalAt # "vpp" /\ watcher # "none")

\* C14: exitOnErrCh with an error pending on the channel ends the process
\* there and then with status 1 - ctx is not cancelled and no watcher is
\* started; with nothing pending it starts the watcher and main goes on.
\* Only an error the watcher receives later is followed by cancel().
C14_PendingErrorIsFatal ==
    /\ [][(pc = "exitOnErrCh" /\ pc' # pc /\ exitStatus' # "signal") =>
            IF ErrChReady
            THEN /\ pc' = "exited"
                 /\ exitStatus' = "1"
                 /\ fatalAt' = "vpp"
                 /\ ~ctxDone'
                 /\ watcher' = "none"
            ELSE /\ pc' = "svid"
                 /\ exitStatus' = "none"
                 /\ watcher' = "waiting"]_vars
    /\ [][(watcher = "received" /\ watcher' # watcher) =>
            (watcher' = "done" /\ ctxDone' /\ exitStatus' = "none")]_vars
    /\ [](fatalAt = "vpp" => (vppErrAt.phase = "bootstrap" /\ ~ctxDone))

\* C14 witness: the dataplane failed before exitOnErrCh ran, and exitOnErrCh
\* ended the process.
C14_Witness ==
    /\ fatalAt = "vpp"
    /\ exitStatus = "1"
    /\ vppErrAt.phase = "bootstrap"
    /\ watcher = "none"

\* main is running its deferred calls
InTeardown == pc \in {"return", "closing", "drain"}

\* C15: with an empty service list the loop body is never entered: no probe,
\* no request, no close, no connection, no failure of the loop.  Main leaves
\* the wait only for its return, and only once a signal has reached the
\* handler or the watcher has cancelled ctx after a dataplane error; its
\* teardown can then always go on: the one deferred call that blocks, the
\* receive from vppErrCh, waits for a dataplane that ctx's cancellation stops.
C15_EmptyListIdle ==
    /\ [](N = 0 =>
            /\ requests = << >>
            /\ established = << >>
            /\ closeLog = << >>
            /\ pc \notin {"probeOpen", "probeRecv", "mechanism", "request",
                          "requesting", "closing"}
            /\ fatalAt \notin {"monitor", "mechanism", "request"}
            /\ (InTeardown \/ exitStatus = "0") =>
                    (signalled \/ watcher = "done")
            /\ (pc = "drain" /\ ~ErrChReady) => (vpp = "running" /\ ctxDone))
    /\ [][(N = 0 /\ pc = "wait" /\ pc' # pc) =>
            (pc' = "return" /\ (signalled \/ watcher = "done"))]_vars

\* C15 witness: with an empty service list the process has waited, torn down
\* and ended with status 0.
C15_Witness ==
    /\ N = 0
    /\ exitStatus = "0"
    /\ requests = << >>
    /\ closeLog = << >>

\* the number of the phase (main.go:100-107) whose code the main flow is in;
\* 6 for the wait and the teardown that follow phase 5, 0 once the process
\* has ended
PhaseNumber(p) ==
    CASE p = "config" -> 1
      [] p \in {"startVpp", "exitOnErrCh"} -> 2
      [] p = "svid" -> 3
      [] p \in {"client", "dial"} -> 4
      [] p \in {"loop", "probeOpen", "probeRecv", "mechanism", "request",
                "requesting"} -> 5
      [] p \in {"wait", "return", "closing", "drain"} -> 6
      [] OTHER -> 0

\* C16: the phases run in the order 1, 2, 3, 4, 5: a step of main stays in
\* its phase, enters the next one, or ends the process; the next phase is
\* entered only with no failure recorded; a failure ends the process, after
\* which no phase is entered again.
C16_PhaseOrder ==
    /\ [][LET a == PhaseNumber(pc)
              b == PhaseNumber(pc')
          IN  /\ b \in {0, a, a + 1}
              /\ a = 0 => b = 0
              /\ b = a + 1 => (fatalAt' = "" /\ exitStatus' = "none")
              /\ fatalAt' # fatalAt => (fatalAt = "" /\ b = 0)]_vars
    /\ [](fatalAt # "" => PhaseNumber(pc) = 0)
    /\ [](PhaseNumber(pc) >= 3 => (watcher # "none" /\ vpp # "none"))
    /\ [](PhaseNumber(pc) >= 5 => sigInstalled)

\* C16 witness: phase 5 is running after phases 1 to 4, none of which failed.
C16_Witness ==
    /\ PhaseNumber(pc) = 5
    /\ pc = "requesting"
    /\ fatalAt = ""
    /\ watcher = "waiting"
    /\ sigInstalled

\* the Request call that is in flight
InFlight == requests[Len(requests)]

\* C17 as claimed: a Request that is in flight when a termination signal has
\* reached the handler was made with the signal-aware context signalCtx, so
\* that the signal aborts it.
C17_SignalAbortsRequest ==
    (pc = "requesting" /\ signalled) => InFlight.context = "signalCtx"

\* C18 as claimed: every Request call is made with a context that carries a
\* deadline (the per-request timeout), so that the call cannot stay pending
\* past it.
C18_RequestContextBounded ==
    \A k \in DOMAIN requests : requests[k].deadline

\* a termination trigger has occurred: a signal has reached the handler of
\* notifyContext, or the watcher has cancelled ctx
Triggered == signalled \/ watcher = "done"

\* C19: main leaves the wait only when signalCtx is done, and no
\* nsmClient.Close is called, nor any deferred call run, before a signal has
\* reached the handler or the watcher has cancelled ctx.
C19_NoCloseBeforeTrigger ==
    /\ [](closeLog # << >> => Triggered)
    /\ [](InTeardown => Triggered)
    /\ [][(pc = "wait" /\ pc' # pc) => (SignalCtxDone /\ Triggered)]_vars
    /\ [][closeLog' # closeLog => Triggered]_vars

\* C19 witness: the first close has been called, after a signal.
C19_Witness ==
    /\ Len(closeLog) = 1
    /\ closeLog[1].ev = "call"
    /\ signalled
    /\ watcher # "done"

\* how often nsmClient.Close has been called for the connection of slot s
CloseCount(s) ==
    Cardinality({k \in DOMAIN closeLog :
                    IsCall(closeLog[k]) /\ closeLog[k].slot = s})

\* how many closes of slot s are on main's defer stack
DeferredCloses(s) ==
    Cardinality({k \in DOMAIN defers :
                    defers[k].op = "close" /\ defers[k].slot = s})

TrackedSlots == {established[k] : k \in DOMAIN established}

\* C20: nsmClient.Close is called at most once for each tracked connection
\* and for nothing else; a tracked connection's close is either still
\* deferred or has been called, never both; and once the teardown has run
\* the deferred closes - whatever mix of signal and dataplane error set it
\* off - it has been called exactly once for each.
C20_CloseExactlyOnce ==
    /\ \A k \in DOMAIN closeLog : closeLog[k].slot \in TrackedSlots
    /\ \A s \in TrackedSlots :
          /\ CloseCount(s) <= 1
          /\ CloseCount(s) + DeferredCloses(s) = 1
    /\ (pc = "drain" \/ exitStatus = "0") =>
          \A s \in TrackedSlots : CloseCount(s) = 1

\* C20 witness: a run with both a signal and a dataplane failure has torn
\* down two connections and ended.
C20_Witness ==
    /\ exitStatus = "0"
    /\ signalled
    /\ vppErrAt # NoErr
    /\ Len(established) = 2
    /\ Len(CloseCalls) = 2

\* some nsmClient.Close has returned an error
CloseFailed ==
    \E k \in DOMAIN closeLog : closeLog[k].ev = "return" /\ closeLog[k].err

\* C21: the return of nsmClient.Close, error or not, only lets main go on
\* with its deferred calls: it ends nothing and takes no deferred call off
\* the stack.  After a failed close every other tracked connection's close
\* has been called or is still deferred in a running process, the calls stay
\* in reverse order of establishment, and a run that ends with status 0 has
\* made them all.
C21_CloseErrorsIgnored ==
    /\ [][(pc = "closing" /\ pc' # pc) =>
            /\ pc' = "return"
            /\ exitStatus' = "none"
            /\ fatalAt' = fatalAt
            /\ defers' = defers]_vars
    /\ [](CloseFailed =>
            /\ fatalAt = ""
            /\ \A s \in TrackedSlots :
                  \/ CloseCount(s) = 1
                  \/ DeferredCloses(s) = 1 /\ Alive /\ InTeardown
            /\ \A k \in DOMAIN CloseCalls :
                  CloseCalls[k].slot = established[Len(established) - k + 1]
            /\ exitStatus = "0" => Len(CloseCalls) = Len(established))

\* C21 witness: the close of slot 1 failed, the close of slot 0 was still
\* made, and the process ended with status 0.
C21_Witness ==
    /\ exitStatus = "0"
    /\ established = <<0, 1>>
    /\ Len(closeLog) = 4
    /\ closeLog[2].slot = 1
    /\ closeLog[2].err
    /\ closeLog[3].slot = 0

\* C22: every Request call is for a descriptor whose mechanism type is the
\* supported one and carries that mechanism as its preference; a run ended
\* by the mechanism check has made no request for the slot that failed it.
C22_CheckedBeforeRequest ==
    /\ \A k \in DOMAIN requests :
          /\ Mechanism(services[requests[k].slot + 1]).type = MEMIF
          /\ requests[k].request.mechanismPreferences[1].type = MEMIF
    /\ pc \in {"request", "requesting"} => Mechanism(U).type = MEMIF
    /\ fatalAt = "mechanism" =>
          /\ Mechanism(U).type # MEMIF
          /\ \A k \in DOMAIN requests : requests[k].slot < i

\* C22 witness: slot 0 was requested, then the unsupported descriptor of
\* slot 1 ended the process before any request for it.
C22_Witness ==
    /\ fatalAt = "mechanism"
    /\ i = 1
    /\ Len(requests) = 1
    /\ requests[1].slot = 0

\* main is in the probe of slot i or between it and the Request call
Probing == pc \in {"probeOpen", "probeRecv", "mechanism", "request"}

\* C23: the slots are served one after the other.  Requests are made and
\* connections established in slot order; at most one Request has not
\* returned, and then main is waiting for it (or it failed and ended the
\* process); the probe of slot i runs only when the requests of all slots
\* below i have returned a connection.
C23_Sequential ==
    /\ \A k \in DOMAIN requests : requests[k].slot = k - 1
    /\ \A k \in DOMAIN established : established[k] = k - 1
    /\ Len(requests) - Len(established) \in {0, 1}
    /\ Len(requests) > Len(established) =>
          (pc = "requesting" \/ fatalAt = "request")
    /\ Probing => (Len(requests) = i /\ Len(established) = i)
    /\ pc = "requesting" => (Len(requests) = i + 1 /\ Len(established) = i)

\* C23 witness: the probe of slot 1 is open after the request of slot 0
\* returned a connection.
C23_Witness ==
    /\ pc = "probeRecv"
    /\ i = 1
    /\ established = <<0>>
    /\ Len(requests) = 1

\* C24 as claimed: once a termination signal has reached the handler, no
\* further Request call is made.
C24_NoRequestAfterSignal == [][signalled => requests' = requests]_vars

\* nsmClient.Close has returned for every tracked connection
AllCloseReturned ==
    /\ Len(closeLog) = 2 * Len(established)
    /\ pc # "closing"

\* C25: main itself cancels ctx, and receives from vppErrCh, only when Close
\* has returned for every tracked connection.  So in a teardown set off by a
\* signal alone - the dataplane has not failed - ctx is live and the
\* dataplane running for as long as a close is still to be made or to
\* return, and every close is called with a live ctx.
C25_DataplaneOutlivesCloses ==
    /\ [][(~ctxDone /\ ctxDone' /\ watcher' = watcher) =>
            (pc = "return" /\ AllCloseReturned)]_vars
    /\ [](pc = "drain" => AllCloseReturned)
    /\ []((InTeardown /\ vppErrAt = NoErr /\ ~AllCloseReturned) =>
            (signalled /\ ~ctxDone /\ vpp = "running"))
    /\ []((vppErrAt = NoErr /\ watcher # "done") =>
            \A k \in DOMAIN closeLog :
                IsCall(closeLog[k]) => ~closeLog[k].ctxDone)

\* C25 witness: after a signal the close of slot 1 has returned and the
\* close of slot 0 is in flight, with ctx live and the dataplane running.
C25_Witness ==
    /\ pc = "closing"
    /\ signalled
    /\ vppErrAt = NoErr
    /\ Len(established) = 2
    /\ Len(closeLog) = 3
    /\ ~ctxDone
    /\ vpp = "running"

\* the steps main takes once the wait is over: its deferred calls, one after
\* the other, and its return
Teardown ==
    \/ CloseCall
    \/ CloseReturn
    \/ CancelFinished
    \/ CancelSignalCtx
    \/ DrainVppCancel
    \/ DrainVppRecv
    \/ CancelRoot
    \/ Exit

\* how much of the teardown is left: three for each deferred call still on
\* the stack, two while a Close has not returned, one while the receive from
\* vppErrCh is pending
TeardownMeasure ==
    3 * Len(defers)
      + (CASE pc = "closing" -> 2 [] pc = "drain" -> 1 [] OTHER -> 0)

\* C26: the teardown cannot get stuck and cannot go on for ever.  In every
\* state of it main can take a step, or main is at the receive from vppErrCh
\* and the dataplane, with ctx cancelled, has yet to stop and close the
\* channel; the receive can complete whenever the dataplane has stopped,
\* also when the watcher has taken the only error value; and every step of
\* main lowers TeardownMeasure, which no other step raises, until main
\* returns with the measure at 0.
C26_ShutdownTerminates ==
    /\ [](InTeardown =>
            \/ ENABLED Teardown
            \/ pc = "drain" /\ ctxDone /\ ENABLED VppStop)
    /\ []((pc = "drain" /\ vpp # "running") => ErrChReady)
    /\ []((pc = "return" /\ TeardownMeasure = 0) => ENABLED Exit)
    /\ [][(InTeardown /\ pc' # "exited") =>
            /\ TeardownMeasure' <= TeardownMeasure
            /\ (pc' # pc \/ defers' # defers) =>
                    TeardownMeasure' < TeardownMeasure]_vars

\* C26 witness: main is at the receive from vppErrCh after the watcher has
\* taken the one error value off the channel, which is closed.
C26_Witness ==
    /\ pc = "drain"
    /\ vppErrAt # NoErr
    /\ watcher \in {"received", "done"}
    /\ errQueued = 0
    /\ errClosed

====
